---- MODULE Spec2Model ----
(***************************************************************************)
(* Model of the chat pipeline of the Cohere chat API:                      *)
(*   app/api/v1/chat.py          chat_endpoint                             *)
(*   app/services/wikipedia.py   WikipediaService                          *)
(*   app/services/cohere_client.py CohereService                           *)
(*   app/schemas/chat.py         QueryRequest                              *)
(*                                                                         *)
(* Strings are sequences of tokens.  A token is one character ("q", " ",   *)
(* "_") or one literal of the source that the code handles as a whole      *)
(* (the search-highlight markers, the URL prefix, the template texts).     *)
(* A JSON value that may be absent or null is a tagged record              *)
(* [k |-> "str" | "missing" | "null" | "none", v |-> <<tokens>>].           *)
(* temperature is counted in tenths (7 is 0.7).                            *)
(***************************************************************************)
EXTENDS Integers, Sequences, FiniteSets, TLC

VARIABLES
    pc,                 \* position of the chat request in chat_endpoint
    request,            \* the QueryRequest (query stripped once validated)
    search_results,     \* _extract_article_content: the hits of the search reply
    fetched,            \* the summary replies of the hits processed so far
    results,            \* _extract_article_content: results so far
    searchOutcome,      \* how the search call of this request went
    wiki_results,       \* chat_endpoint: wiki_results
    wikipedia_sources,  \* chat_endpoint: wikipedia_sources
    wikipedia_context,  \* chat_endpoint: wikipedia_context (None or text)
    message,            \* the message handed to client.chat (None before)
    gen_reply,          \* what the generation provider answered (NoGen before)
    chat_response,      \* the QueryResponse built at lines 88-95 (or None)
    recOutcome,         \* where the persistence step failed, and its rollback
    reply,              \* what the client receives
    chat_history,       \* the chat_history table (committed rows, oldest first)
    clock,              \* datetime.utcnow()
    calls,              \* per-request counts of the external calls
    nRequests,          \* requests submitted so far
    stored_before,      \* the chat_history table when the request came in
    admin,              \* the last reply of /history, /health or /debug/database
    submitted           \* the query of the request body as the client sent it

vars == << pc, request, search_results, fetched, results, searchOutcome, wiki_results,
           wikipedia_sources, wikipedia_context, message, gen_reply,
           chat_response, recOutcome, reply, chat_history, clock, calls,
           nRequests, stored_before, admin, submitted >>

----------------------------------------------------------------------------
(* Bounds and program constants *)

MaxRequests == 2

SearchLimit == 2

MaxContentChars == 800

MinQueryLen == 1

MaxQueryLen == 2000

MinTokens == 1

MaxTokens == 2000

MinTemperature == 0

MaxTemperature == 10

HttpOk == 200

----------------------------------------------------------------------------
(* Tagged values *)

Str(s) == [k |-> "str", v |-> s]

Missing == [k |-> "missing", v |-> <<>>]

Null == [k |-> "null", v |-> <<>>]

None == [k |-> "none", v |-> <<>>]

----------------------------------------------------------------------------
(* String helpers: Python's str.replace, str.strip, truthiness *)

IsPrefix(p, s) == Len(p) <= Len(s) /\ SubSeq(s, 1, Len(p)) = p

RECURSIVE ReplaceAll(_, _, _)
ReplaceAll(s, old, new) ==
    IF s = <<>> THEN <<>>
    ELSE IF IsPrefix(old, s)
         THEN new \o ReplaceAll(SubSeq(s, Len(old) + 1, Len(s)), old, new)
         ELSE <<Head(s)>> \o ReplaceAll(Tail(s), old, new)

IsSpace(c) == c \in {" ", "\t", "\n"}

RECURSIVE LStrip(_)
LStrip(s) == IF s # <<>> /\ IsSpace(Head(s)) THEN LStrip(Tail(s)) ELSE s

RECURSIVE RStrip(_)
RStrip(s) ==
    IF s # <<>> /\ IsSpace(s[Len(s)]) THEN RStrip(SubSeq(s, 1, Len(s) - 1)) ELSE s

Strip(s) == RStrip(LStrip(s))

Truthy(x) == x.k = "str" /\ x.v # <<>>

----------------------------------------------------------------------------
(* Exceptions *)

RequestExceptions == {"Timeout", "ConnectionError", "HTTPError"}

Exceptions ==
    RequestExceptions \cup {"JSONDecodeError", "KeyError", "AttributeError",
                            "TypeError", "CohereError", "SQLAlchemyError"}

NoExc == "none"

----------------------------------------------------------------------------
(* WikipediaService *)

WikiBase == <<"https://en.wikipedia.org/wiki/">>

OpenMark == <<"<span class=\"searchmatch\">">>

CloseMark == <<"</span>">>

\* _clean_snippet: the two literal markers are removed, nothing else
CleanSnippet(snippet) == ReplaceAll(ReplaceAll(snippet, OpenMark, <<>>), CloseMark, <<>>)

\* title.replace(' ', '_')
TitlePath(title) == ReplaceAll(title, <<" ">>, <<"_">>)

\* _create_fallback_result
CreateFallbackResult(title, snippet) ==
    [title |-> title, content |-> Str(snippet), url |-> WikiBase \o TitlePath(title)]

\* dict.get(key, ""): the default stands in for an absent key only; a key
\* present with a JSON null comes back as None
GetOrEmpty(x) == IF x.k = "missing" THEN Str(<<>>) ELSE x

\* _get_article_summary(title) on the reply sum of the summary endpoint:
\* [exc |-> the exception raised or NoExc, value |-> the dict, or None]
GetArticleSummary(title, sum) ==
    IF sum.net # "ok" THEN [exc |-> sum.net, value |-> None]
    ELSE IF sum.status_code # HttpOk THEN [exc |-> NoExc, value |-> None]
    ELSE IF sum.body # "object" THEN [exc |-> "JSONDecodeError", value |-> None]
    ELSE IF sum.page.k = "null" THEN [exc |-> "AttributeError", value |-> None]
    ELSE [exc |-> NoExc,
          value |-> [k |-> "dict",
                     v |-> [title |-> title,
                            content |-> GetOrEmpty(sum.extract),
                            url |-> GetOrEmpty(sum.page).v]]]

\* mutant: the try of the loop catches transport errors only
ExtractCatches_RequestOnly(exc) == exc \in RequestExceptions

\* the exceptions the try of _extract_article_content turns into a fallback
ExtractCatches(exc) == exc \in Exceptions

\* `if article_content:` a dict with keys is true, None is false
SummaryFound(value) == value.k = "dict"

\* lines 116-119: what the loop body raises before it reaches the fetch
HitError(item) ==
    IF item.title.k = "missing" THEN "KeyError"
    ELSE IF GetOrEmpty(item.snippet).k = "null" THEN "AttributeError"
    ELSE NoExc

\* one pass of the loop body of _extract_article_content for a hit whose
\* title and snippet were read: [exc, article]
ResolveHit(item, sum) ==
    LET title == item.title.v
        snippet == CleanSnippet(GetOrEmpty(item.snippet).v)
        got == GetArticleSummary(title, sum)
    IN  IF got.exc # NoExc
        THEN IF ExtractCatches(got.exc)
             THEN [exc |-> NoExc, article |-> CreateFallbackResult(title, snippet)]
             ELSE [exc |-> got.exc, article |-> CreateFallbackResult(title, snippet)]
        ELSE IF SummaryFound(got.value)
             THEN [exc |-> NoExc, article |-> got.value.v]
             ELSE [exc |-> NoExc, article |-> CreateFallbackResult(title, snippet)]

\* _perform_search up to line 98 on the reply rep of the search endpoint:
\* [exc, hits, found]
PerformSearch(rep) ==
    IF rep.net # "ok" THEN [exc |-> rep.net, found |-> FALSE, hits |-> <<>>]
    ELSE IF rep.status_code >= 400
         THEN [exc |-> "HTTPError", found |-> FALSE, hits |-> <<>>]
    ELSE IF rep.body # "object"
         THEN [exc |-> "JSONDecodeError", found |-> FALSE, hits |-> <<>>]
    ELSE IF ~rep.has_search THEN [exc |-> NoExc, found |-> FALSE, hits |-> <<>>]
    ELSE [exc |-> NoExc, found |-> TRUE, hits |-> rep.search]

\* mutant: only the handler of requests.RequestException is there
SearchCatches_RequestOnly(exc) == exc \in RequestExceptions

\* search_wikipedia lines 55-60: the exceptions it answers with []
SearchCatches(exc) == exc \in RequestExceptions \/ exc \in Exceptions

----------------------------------------------------------------------------
(* CohereService *)

Preamble == <<"Based on the following Wikipedia information, please answer the user's question comprehensively and mention that you're using Wikipedia sources:\n\nWikipedia Context:\n">>

QuestionLabel == <<"\n\nUser Question: ">>

Epilogue == <<"\n\nPlease provide a detailed answer using the Wikipedia information provided above. Start your response by acknowledging that you found relevant information from Wikipedia.">>

ArticleHeader == <<"Wikipedia Article: ">>

Ellipsis == <<"...">>

\* mutant: a content of exactly the limit is cut too
Truncate_AtLimit(content) ==
    IF Len(content) >= MaxContentChars
    THEN SubSeq(content, 1, MaxContentChars) \o Ellipsis
    ELSE content

\* line 129
Truncate(content) ==
    IF Len(content) > MaxContentChars
    THEN SubSeq(content, 1, MaxContentChars) \o Ellipsis
    ELSE content

\* line 130
RenderArticle(a) == ArticleHeader \o a.title \o <<"\n">> \o Truncate(a.content.v)

\* mutant: the parts are joined by a single line break
RECURSIVE JoinParts_OneBreak(_)
JoinParts_OneBreak(parts) ==
    IF parts = <<>> THEN <<>>
    ELSE IF Len(parts) = 1 THEN parts[1]
    ELSE parts[1] \o <<"\n">> \o JoinParts_OneBreak(Tail(parts))

\* line 132: "\n\n".join(context_parts)
RECURSIVE JoinParts(_)
JoinParts(parts) ==
    IF parts = <<>> THEN <<>>
    ELSE IF Len(parts) = 1 THEN parts[1]
    ELSE parts[1] \o <<"\n\n">> \o JoinParts(Tail(parts))

\* format_wikipedia_context: [exc, text]; len(None) raises TypeError
FormatWikipediaContext(wikipedia_results) ==
    IF wikipedia_results = <<>> THEN [exc |-> NoExc, text |-> <<>>]
    ELSE IF \E i \in 1..Len(wikipedia_results) : wikipedia_results[i].content.k # "str"
         THEN [exc |-> "TypeError", text |-> <<>>]
    ELSE [exc |-> NoExc,
          text |-> JoinParts([i \in 1..Len(wikipedia_results) |->
                                 RenderArticle(wikipedia_results[i])])]

\* mutant: the template is used for every context that is not None
PrepareMessage_TemplateForEmpty(query, context) ==
    IF context.k = "str"
    THEN Preamble \o context.v \o QuestionLabel \o query \o Epilogue
    ELSE query

\* _prepare_message
PrepareMessage(query, context) ==
    IF Truthy(context)
    THEN Preamble \o context.v \o QuestionLabel \o query \o Epilogue
    ELSE query

\* mutant: an exception of the provider is swallowed and an empty text returned
GenerateResponse_Swallows(gen) ==
    IF gen.text.k # "str" THEN [exc |-> NoExc, text |-> <<>>]
    ELSE [exc |-> NoExc, text |-> gen.text.v]

\* generate_response lines 68-81 on the provider's reply gen:
\* [exc, text]; len(response.text) raises on a null text
GenerateResponse(gen) ==
    IF gen.exc # NoExc THEN [exc |-> gen.exc, text |-> <<>>]
    ELSE IF gen.text.k # "str" THEN [exc |-> "TypeError", text |-> <<>>]
    ELSE [exc |-> NoExc, text |-> gen.text.v]

----------------------------------------------------------------------------
(* QueryRequest *)

\* mutant: the upper bounds of max_tokens and temperature are not enforced
ValidRequest_NoUpperBounds(req) ==
    /\ Len(req.query) >= MinQueryLen
    /\ Len(req.query) <= MaxQueryLen
    /\ Strip(req.query) # <<>>
    /\ req.max_tokens >= MinTokens
    /\ req.temperature >= MinTemperature

\* Field constraints, then validate_query
ValidRequest(req) ==
    /\ Len(req.query) >= MinQueryLen
    /\ Len(req.query) <= MaxQueryLen
    /\ Strip(req.query) # <<>>
    /\ req.max_tokens >= MinTokens
    /\ req.max_tokens <= MaxTokens
    /\ req.temperature >= MinTemperature
    /\ req.temperature <= MaxTemperature

\* mutant: the query is passed on as it was sent
Validated_Untrimmed(req) == req

\* the request the endpoint receives: validate_query returns v.strip()
Validated(req) == [req EXCEPT !.query = Strip(req.query)]

----------------------------------------------------------------------------
(* Inputs: what clients submit and what the external services answer *)

\* two request bodies inside the declared bounds, one at the lower and one
\* at the upper end of each numeric range
GoodBodies ==
    { [query |-> <<"q">>, max_tokens |-> MinTokens, temperature |-> MinTemperature],
      [query |-> <<" ", "r", " ">>, max_tokens |-> MaxTokens,
       temperature |-> MaxTemperature] }

\* each of them with one field moved out of its bounds
BadBodies ==
    UNION { { [g EXCEPT !.query = <<>>],
              [g EXCEPT !.query = <<" ">>],
              [g EXCEPT !.max_tokens = MinTokens - 1],
              [g EXCEPT !.max_tokens = MaxTokens + 1],
              [g EXCEPT !.temperature = MinTemperature - 1],
              [g EXCEPT !.temperature = MaxTemperature + 1] } : g \in GoodBodies }

Requests ==
    { [query |-> b.query, max_tokens |-> b.max_tokens,
       temperature |-> b.temperature, use_wikipedia |-> w] :
         b \in GoodBodies \cup BadBodies, w \in BOOLEAN }

HitA ==
    [title |-> Str(<<"A", " ", "B">>),
     snippet |-> Str(OpenMark \o <<"s">> \o CloseMark \o <<" ", "t">>)]

HitC == [title |-> Str(<<"C">>), snippet |-> Missing]

HitNullSnippet == [title |-> Str(<<"C">>), snippet |-> Null]

HitNoTitle == [title |-> Missing, snippet |-> Str(<<"s">>)]

\* the search endpoint is asked for srlimit hits and answers with no more
HitLists ==
    { h \in { <<>>, <<HitA>>, <<HitC>>, <<HitA, HitC>>, <<HitA, HitNoTitle>>,
              <<HitNullSnippet>> } : Len(h) <= SearchLimit }

SearchReplies ==
    { [net |-> "Timeout", status_code |-> 0, body |-> "none",
       has_search |-> FALSE, search |-> <<>>],
      [net |-> "ok", status_code |-> 500, body |-> "none",
       has_search |-> FALSE, search |-> <<>>],
      [net |-> "ok", status_code |-> 304, body |-> "none",
       has_search |-> FALSE, search |-> <<>>],
      [net |-> "ok", status_code |-> HttpOk, body |-> "malformed",
       has_search |-> FALSE, search |-> <<>>],
      [net |-> "ok", status_code |-> HttpOk, body |-> "object",
       has_search |-> FALSE, search |-> <<>>] }
    \cup { [net |-> "ok", status_code |-> HttpOk, body |-> "object",
            has_search |-> TRUE, search |-> h] : h \in HitLists }

PageUrl == <<"https://en.wikipedia.org/wiki/", "P">>

SummaryReplies ==
    { [net |-> "Timeout", status_code |-> 0, body |-> "none",
       extract |-> Missing, page |-> Missing],
      [net |-> "ok", status_code |-> 404, body |-> "none",
       extract |-> Missing, page |-> Missing],
      [net |-> "ok", status_code |-> 204, body |-> "none",
       extract |-> Missing, page |-> Missing],
      [net |-> "ok", status_code |-> HttpOk, body |-> "malformed",
       extract |-> Missing, page |-> Missing] }
    \cup { [net |-> "ok", status_code |-> HttpOk, body |-> "object",
            extract |-> c[1], page |-> c[2]] :
              c \in { <<Str(<<"e">>), Str(PageUrl)>>, <<Missing, Str(PageUrl)>>,
                      <<Null, Str(PageUrl)>>, <<Str(<<"e">>), Missing>>,
                      <<Str(<<"e">>), Null>> } }

GenReplies ==
    { [exc |-> "CohereError", text |-> Null],
      [exc |-> NoExc, text |-> Null],
      [exc |-> NoExc, text |-> Str(<<>>)],
      [exc |-> NoExc, text |-> Str(<<"g">>)] }

RecordSteps == << "build", "add", "commit", "refresh" >>

FailPoints == { "none", "build", "add", "commit", "refresh" }

----------------------------------------------------------------------------
(* State *)

NoRequest ==
    [query |-> <<>>, max_tokens |-> 0, temperature |-> 0, use_wikipedia |-> FALSE]

NoCalls ==
    [search |-> 0, summary |-> 0, compose |-> 0, generate |-> 0, add |-> 0, commit |-> 0]

NoReply == [kind |-> "none", status |-> 0, body |-> None]

NoSearch == [status |-> "none", exc |-> NoExc, at |-> "none", query |-> <<>>]

NoGen == [exc |-> "uncalled", text |-> None]

NoRecord == [failed |-> "none", rollback |-> "none"]

\* what the storage and the provider answered to a handler beside POST /chat,
\* and the limit and offset it was called with
NoInput == [dbFails |-> FALSE, limit |-> 0, offset |-> 0, gen |-> NoGen, rows |-> <<>>]

\* op: the endpoint; chats: the calls of client.chat the handler made
NoAdmin ==
    [op |-> "none", status |-> 0, total |-> 0, items |-> <<>>, detail |-> "none",
     features |-> {}, chats |-> 0, input |-> NoInput]

Terminal == { "Completed", "Failed", "Rejected" }

Init ==
    /\ pc = "Idle"
    /\ request = NoRequest
    /\ search_results = <<>>
    /\ fetched = <<>>
    /\ results = <<>>
    /\ searchOutcome = NoSearch
    /\ wiki_results = <<>>
    /\ wikipedia_sources = <<>>
    /\ wikipedia_context = None
    /\ message = None
    /\ gen_reply = NoGen
    /\ chat_response = None
    /\ recOutcome = NoRecord
    /\ reply = NoReply
    /\ chat_history = <<>>
    /\ clock = 1
    /\ calls = NoCalls
    /\ nRequests = 0
    /\ stored_before = <<>>
    /\ admin = NoAdmin
    /\ submitted = <<>>

\* the HTTPException of lines 121-125
ServerError == [kind |-> "error", status |-> 500, body |-> None]

\* the framework's answer to a body QueryRequest rejects
ValidationError == [kind |-> "error", status |-> 422, body |-> None]

----------------------------------------------------------------------------
(* Actions *)

\* POST /chat: the framework validates the body against QueryRequest and
\* calls chat_endpoint only for a valid one
Submit(req) ==
    /\ pc \in {"Idle"} \cup Terminal
    /\ UNCHANGED admin
    /\ submitted' = req.query
    /\ nRequests < MaxRequests
    /\ nRequests' = nRequests + 1
    /\ IF ValidRequest(req)
       THEN /\ pc' = "Received"
            /\ request' = Validated(req)
            /\ reply' = NoReply
       ELSE /\ pc' = "Rejected"
            /\ request' = req
            /\ reply' = ValidationError
    /\ search_results' = <<>>
    /\ fetched' = <<>>
    /\ results' = <<>>
    /\ searchOutcome' = NoSearch
    /\ wiki_results' = <<>>
    /\ wikipedia_sources' = <<>>
    /\ wikipedia_context' = None
    /\ message' = None
    /\ gen_reply' = NoGen
    /\ chat_response' = None
    /\ recOutcome' = NoRecord
    /\ calls' = NoCalls
    /\ stored_before' = chat_history
    /\ UNCHANGED << chat_history, clock >>

\* mutant: the flag of the request is ignored
UseWikipedia_Always(req) == TRUE

\* line 56
UseWikipedia(req) == req.use_wikipedia

\* mutant: the context is composed whatever the search gave
HasResults_Always(rs) == TRUE

\* line 60: an empty list is false
HasResults(rs) == rs # <<>>

\* mutant: the generation call is dispatched as soon as the request is in
Begin_GeneratesAtOnce ==
    /\ pc = "Received"
    /\ pc' = "Generating"
    /\ UNCHANGED << request, search_results, fetched, results, searchOutcome,
                    wiki_results, wikipedia_sources, wikipedia_context, message,
                    gen_reply, chat_response, recOutcome, reply, chat_history,
                    clock, calls, nRequests, stored_before, admin, submitted >>

\* chat_endpoint lines 51-56, 74-75
Begin ==
    /\ pc = "Received"
    /\ UNCHANGED << admin, submitted >>
    /\ pc' = IF UseWikipedia(request) THEN "Searching" ELSE "Prompting"
    /\ UNCHANGED << request, search_results, fetched, results, searchOutcome,
                    wiki_results, wikipedia_sources, wikipedia_context, message,
                    gen_reply, chat_response, recOutcome, reply, chat_history,
                    clock, calls, nRequests, stored_before >>

\* mutant: a search that failed is tried again
SearchRaises_Retries(exc, where) ==
    /\ wiki_results' = <<>>
    /\ pc' = "Searching"
    /\ searchOutcome' = [status |-> "degraded", exc |-> exc, at |-> where, query |-> request.query]
    /\ reply' = reply

\* an exception exc leaves _perform_search: search_wikipedia lines 55-60
\* answer [] for the ones they catch; any other reaches chat_endpoint's
\* handler, lines 121-125
SearchRaises(exc, where) ==
    /\ wiki_results' = <<>>
    /\ IF SearchCatches(exc)
       THEN /\ pc' = "Composing"
            /\ searchOutcome' = [status |-> "degraded", exc |-> exc, at |-> where, query |-> request.query]
            /\ reply' = reply
       ELSE /\ pc' = "Failed"
            /\ searchOutcome' = [status |-> "raised", exc |-> exc, at |-> where, query |-> request.query]
            /\ reply' = ServerError

\* search_wikipedia: the call of the search endpoint, lines 83-98
Search(rep) ==
    /\ pc = "Searching"
    /\ UNCHANGED << admin, submitted >>
    /\ calls' = [calls EXCEPT !.search = @ + 1]
    /\ LET r == PerformSearch(rep)
       IN  IF r.exc # NoExc
           THEN /\ SearchRaises(r.exc, "search")
                /\ UNCHANGED search_results
           ELSE IF ~r.found
           THEN /\ pc' = "Composing"
                /\ wiki_results' = <<>>
                /\ searchOutcome' = [status |-> "returned", exc |-> NoExc, at |-> "search", query |-> request.query]
                /\ UNCHANGED << search_results, reply >>
           ELSE /\ pc' = "Resolving"
                /\ search_results' = r.hits
                /\ searchOutcome' = [status |-> "running", exc |-> NoExc, at |-> "none", query |-> request.query]
                /\ UNCHANGED << wiki_results, reply >>
    /\ UNCHANGED << request, fetched, results, wikipedia_sources,
                    wikipedia_context, message, gen_reply, chat_response,
                    recOutcome, chat_history, clock, nRequests, stored_before >>

\* mutant: a failed fetch turns the articles resolved before it into their
\* fallbacks too
Resolve_FailureSpreads ==
    /\ pc = "Resolving"
    /\ UNCHANGED << admin, submitted >>
    /\ Len(fetched) < Len(search_results)
    /\ LET item == search_results[Len(fetched) + 1]
       IN  IF HitError(item) # NoExc
           THEN /\ SearchRaises(HitError(item), "hit")
                /\ UNCHANGED << fetched, results, calls >>
           ELSE \E sum \in SummaryReplies :
                  LET r == ResolveHit(item, sum)
                      got == GetArticleSummary(item.title.v, sum)
                      earlier == IF got.exc # NoExc \/ ~SummaryFound(got.value)
                                 THEN [j \in 1..Len(results) |->
                                         CreateFallbackResult(
                                             search_results[j].title.v,
                                             CleanSnippet(GetOrEmpty(search_results[j].snippet).v))]
                                 ELSE results
                  IN  /\ calls' = [calls EXCEPT !.summary = @ + 1]
                      /\ fetched' = Append(fetched, sum)
                      /\ IF r.exc # NoExc
                         THEN /\ SearchRaises(r.exc, "summary")
                              /\ UNCHANGED results
                         ELSE /\ results' = Append(earlier, r.article)
                              /\ UNCHANGED << pc, searchOutcome, wiki_results, reply >>
    /\ UNCHANGED << request, search_results, wikipedia_sources, wikipedia_context,
                    message, gen_reply, chat_response, recOutcome, chat_history,
                    clock, nRequests, stored_before >>

\* _extract_article_content: one pass of the loop, lines 115-131
Resolve ==
    /\ pc = "Resolving"
    /\ UNCHANGED << admin, submitted >>
    /\ Len(fetched) < Len(search_results)
    /\ LET item == search_results[Len(fetched) + 1]
       IN  IF HitError(item) # NoExc
           THEN /\ SearchRaises(HitError(item), "hit")
                /\ UNCHANGED << fetched, results, calls >>
           ELSE \E sum \in SummaryReplies :
                  LET r == ResolveHit(item, sum)
                  IN  /\ calls' = [calls EXCEPT !.summary = @ + 1]
                      /\ fetched' = Append(fetched, sum)
                      /\ IF r.exc # NoExc
                         THEN /\ SearchRaises(r.exc, "summary")
                              /\ UNCHANGED results
                         ELSE /\ results' = Append(results, r.article)
                              /\ UNCHANGED << pc, searchOutcome, wiki_results, reply >>
    /\ UNCHANGED << request, search_results, wikipedia_sources, wikipedia_context,
                    message, gen_reply, chat_response, recOutcome, chat_history,
                    clock, nRequests, stored_before >>

\* _extract_article_content lines 133-134: the results go back to
\* chat_endpoint line 58
ReturnResults ==
    /\ pc = "Resolving"
    /\ UNCHANGED << admin, submitted >>
    /\ Len(fetched) = Len(search_results)
    /\ wiki_results' = results
    /\ searchOutcome' = [status |-> "returned", exc |-> NoExc, at |-> "none", query |-> request.query]
    /\ pc' = "Composing"
    /\ UNCHANGED << request, search_results, fetched, results, wikipedia_sources,
                    wikipedia_context, message, gen_reply, chat_response,
                    recOutcome, reply, chat_history, clock, calls, nRequests,
                    stored_before >>

\* lines 64-67: the URLs that are not empty, in order
RECURSIVE CollectSources(_)
CollectSources(rs) ==
    IF rs = <<>> THEN <<>>
    ELSE (IF rs[1].url # <<>> THEN << rs[1].url >> ELSE <<>>)
         \o CollectSources(Tail(rs))

\* chat_endpoint lines 60-73
CollectContext ==
    /\ pc = "Composing"
    /\ UNCHANGED << admin, submitted >>
    /\ IF HasResults(wiki_results)
       THEN LET c == FormatWikipediaContext(wiki_results)
            IN  /\ wikipedia_sources' = CollectSources(wiki_results)
                /\ calls' = [calls EXCEPT !.compose = @ + 1]
                /\ IF c.exc # NoExc
                   THEN /\ pc' = "Failed"
                        /\ reply' = ServerError
                        /\ UNCHANGED wikipedia_context
                   ELSE /\ pc' = "Prompting"
                        /\ wikipedia_context' = Str(c.text)
                        /\ UNCHANGED reply
       ELSE /\ pc' = "Prompting"
            /\ UNCHANGED << wikipedia_sources, wikipedia_context, calls, reply >>
    /\ search_results' = <<>>
    /\ fetched' = <<>>
    /\ results' = <<>>
    /\ UNCHANGED << request, searchOutcome, wiki_results, message, gen_reply,
                    chat_response, recOutcome, chat_history, clock, nRequests, stored_before >>

\* generate_response line 63
Prompt ==
    /\ pc = "Prompting"
    /\ UNCHANGED << admin, submitted >>
    /\ message' = Str(PrepareMessage(request.query, wikipedia_context))
    /\ pc' = "Generating"
    /\ UNCHANGED << request, search_results, fetched, results, searchOutcome,
                    wiki_results, wikipedia_sources, wikipedia_context,
                    gen_reply, chat_response, recOutcome, reply, chat_history,
                    clock, calls, nRequests, stored_before >>

\* generate_response lines 68-81, then chat_endpoint lines 85-95
Generate(gen) ==
    /\ pc = "Generating"
    /\ UNCHANGED << admin, submitted >>
    /\ calls' = [calls EXCEPT !.generate = @ + 1]
    /\ gen_reply' = gen
    /\ LET g == GenerateResponse(gen)
       IN  IF g.exc # NoExc
           THEN /\ pc' = "Failed"
                /\ reply' = ServerError
                /\ UNCHANGED << chat_response, clock >>
           ELSE /\ pc' = "Recording"
                /\ chat_response' =
                       [k |-> "response",
                        v |-> [response |-> g.text,
                               query |-> request.query,
                               wikipedia_sources |-> wikipedia_sources,
                               timestamp |-> clock]]
                /\ clock' = clock + 1
                /\ UNCHANGED reply
    /\ UNCHANGED << request, search_results, fetched, results, searchOutcome,
                    wiki_results, wikipedia_sources, wikipedia_context, message,
                    recOutcome, chat_history, nRequests, stored_before >>

Digits == << "0", "1", "2", "3", "4", "5", "6", "7", "8", "9" >>

\* str(x) of a float x given in tenths, from 0.0 to 9.9 ("1.0" for 10 tenths)
PyStrFloat(tenths) == << Digits[(tenths \div 10) + 1], ".", Digits[(tenths % 10) + 1] >>

\* str(b) of a bool
PyStrBool(b) == IF b THEN << "True" >> ELSE << "False" >>

\* lines 100-108: temperature and use_wikipedia are stored as str(...)
ChatHistoryRow ==
    [query |-> request.query,
     response |-> chat_response.v.response,
     wikipedia_sources |-> wikipedia_sources,
     timestamp |-> chat_response.v.timestamp,
     max_tokens |-> request.max_tokens,
     temperature |-> Str(PyStrFloat(request.temperature)),
     use_wikipedia |-> Str(PyStrBool(request.use_wikipedia))]

\* mutant: the new row replaces the table
Insert_Replaces(table, row) == << row >>

\* lines 109-110: db.add and db.commit insert one row
Insert(table, row) == Append(table, row)

\* whether step s of lines 100-111 ran to its end when the first failure
\* is at failAt
StepDone(s, failAt) ==
    \/ failAt = "none"
    \/ \E i, j \in 1..Len(RecordSteps) :
         RecordSteps[i] = s /\ RecordSteps[j] = failAt /\ i < j

\* line 115 inside the handler of lines 113-116: an exception of
\* db.rollback() leaves the handler and reaches lines 121-125
RollbackEscapes(rollbackFails) == rollbackFails

\* chat_endpoint lines 97-119
Record(failAt, rollbackFails) ==
    /\ pc = "Recording"
    /\ UNCHANGED << admin, submitted >>
    /\ chat_history' = IF StepDone("commit", failAt)
                       THEN Insert(chat_history, ChatHistoryRow)
                       ELSE chat_history
    /\ calls' = [calls EXCEPT !.add = IF StepDone("build", failAt) THEN @ + 1 ELSE @,
                              !.commit = IF StepDone("commit", failAt) THEN @ + 1 ELSE @]
    /\ IF failAt = "none"
       THEN /\ rollbackFails = FALSE
            /\ recOutcome' = [failed |-> "none", rollback |-> "none"]
            /\ pc' = "Completed"
            /\ reply' = [kind |-> "result", status |-> 200, body |-> chat_response]
       ELSE IF RollbackEscapes(rollbackFails)
       THEN /\ recOutcome' = [failed |-> failAt, rollback |-> "raised"]
            /\ pc' = "Failed"
            /\ reply' = ServerError
       ELSE /\ recOutcome' = [failed |-> failAt, rollback |-> "done"]
            /\ pc' = "Completed"
            /\ reply' = [kind |-> "result", status |-> 200, body |-> chat_response]
    /\ UNCHANGED << request, search_results, fetched, results, searchOutcome,
                    wiki_results, wikipedia_sources, wikipedia_context, message,
                    gen_reply, chat_response, clock, nRequests, stored_before >>

Next ==
    \/ \E req \in Requests : Submit(req)
    \/ Begin
    \/ \E rep \in SearchReplies : Search(rep)
    \/ Resolve
    \/ ReturnResults
    \/ CollectContext
    \/ Prompt
    \/ \E gen \in GenReplies : Generate(gen)
    \/ \E failAt \in FailPoints, rollbackFails \in BOOLEAN : Record(failAt, rollbackFails)

Spec == Init /\ [][Next]_vars

----------------------------------------------------------------------------
(* Progress.  chat_endpoint is one sequential coroutine, so every step that *)
(* only computes is taken.  requests.get is given timeout=self.timeout      *)
(* (wikipedia.py lines 83-88 and 153-157): a search or summary call ends    *)
(* with a reply or with requests.Timeout.  The session calls end likewise.  *)
(* client.chat (cohere_client.py lines 68-72) is given no timeout and the   *)
(* client is built from the API key alone (line 31); cohere_timeout of      *)
(* config.py line 58 is read nowhere.  Nothing in the code ends a           *)
(* generation call that gets no answer, so Generate carries no fairness.    *)

Fairness ==
    /\ WF_vars(Begin)
    /\ WF_vars(\E rep \in SearchReplies : Search(rep))
    /\ WF_vars(Resolve)
    /\ WF_vars(ReturnResults)
    /\ WF_vars(CollectContext)
    /\ WF_vars(Prompt)
    /\ WF_vars(\E failAt \in FailPoints, rollbackFails \in BOOLEAN :
                   Record(failAt, rollbackFails))

SpecLive == Init /\ [][Next]_vars /\ Fairness

----------------------------------------------------------------------------
(* The endpoints beside POST /chat: GET /history, DELETE /history,         *)
(* GET /health, GET /debug/database and GET /debug/cohere.  One client     *)
(* calls them one after the other while the chat requests run; admin is    *)
(* the reply of the last call, or the state of a clear that has counted    *)
(* and not yet deleted.                                                    *)

UnchangedChat ==
    UNCHANGED << pc, request, search_results, fetched, results, searchOutcome,
                 wiki_results, wikipedia_sources, wikipedia_context, message,
                 gen_reply, chat_response, recOutcome, reply, clock, calls,
                 nRequests, stored_before, submitted >>

\* no clear_chat_history is between its count and its delete
NoClearRunning == admin.op # "clearing"

\* mutant: the rows come in the order of their insertion
OrderByTimestampDesc_Unordered(rows) == rows

\* order_by(ChatHistory.timestamp.desc()): the row with the latest
\* timestamp first
RECURSIVE OrderByTimestampDesc(_)
OrderByTimestampDesc(rows) ==
    IF rows = <<>> THEN <<>>
    ELSE LET i == CHOOSE j \in 1..Len(rows) :
                    \A k \in 1..Len(rows) : rows[k].timestamp <= rows[j].timestamp
         IN  << rows[i] >>
             \o OrderByTimestampDesc(SubSeq(rows, 1, i - 1) \o SubSeq(rows, i + 1, Len(rows)))

\* .offset(offset).limit(limit)
Page(rows, limit, offset) ==
    IF offset >= Len(rows) THEN <<>>
    ELSE SubSeq(rows, offset + 1, IF offset + limit > Len(rows) THEN Len(rows) ELSE offset + limit)

\* the limit and offset a client sends; limit=100, offset=0 are the defaults
Pages ==
    { [limit |-> 100, offset |-> 0], [limit |-> 1, offset |-> 0], [limit |-> 1, offset |-> 1] }

\* ChatHistoryItem, chat.py lines 160-169
HistoryItem(row) ==
    [query |-> row.query, response |-> row.response,
     wikipedia_sources |-> row.wikipedia_sources, timestamp |-> row.timestamp]

\* get_chat_history, chat.py lines 128-181
GetChatHistory(page, dbFails) ==
    /\ NoClearRunning
    /\ LET in == [NoInput EXCEPT !.dbFails = dbFails, !.limit = page.limit,
                                 !.offset = page.offset, !.rows = chat_history]
           rows == Page(OrderByTimestampDesc(chat_history), page.limit, page.offset)
       IN  admin' = IF dbFails
                    THEN [NoAdmin EXCEPT !.op = "history", !.status = 500, !.input = in]
                    ELSE [NoAdmin EXCEPT !.op = "history", !.status = 200, !.input = in,
                                         !.total = Len(chat_history),
                                         !.items = [i \in 1..Len(rows) |-> HistoryItem(rows[i])]]
    /\ UNCHANGED chat_history
    /\ UnchangedChat

\* clear_chat_history, chat.py line 189: the count query
ClearCount(dbFails) ==
    /\ NoClearRunning
    /\ admin' = IF dbFails
                THEN [NoAdmin EXCEPT !.op = "clear", !.status = 500,
                                     !.input = [NoInput EXCEPT !.dbFails = TRUE]]
                ELSE [NoAdmin EXCEPT !.op = "clearing", !.total = Len(chat_history)]
    /\ UNCHANGED chat_history
    /\ UnchangedChat

\* clear_chat_history, chat.py lines 190-201: the delete of every row and
\* its commit, then the reply with the number counted before; or the
\* rollback of the handler
ClearDelete(dbFails) ==
    /\ admin.op = "clearing"
    /\ admin' = IF dbFails
                THEN [NoAdmin EXCEPT !.op = "clear", !.status = 500,
                                     !.input = [NoInput EXCEPT !.dbFails = TRUE]]
                ELSE [NoAdmin EXCEPT !.op = "clear", !.status = 200,
                                     !.total = admin.total,
                                     !.input = [NoInput EXCEPT !.rows = chat_history]]
    /\ chat_history' = IF dbFails THEN chat_history ELSE <<>>
    /\ UnchangedChat

\* the features health_check lists, debug.py lines 45-50
Features ==
    { "wikipedia_integration", "chat_history", "tool_calling", "postgresql_storage" }

\* health_check lines 30-37: total_conversations and database_status
HealthTotal(dbFails, rows) ==
    IF dbFails THEN Str(<< "unknown" >>) ELSE [k |-> "int", v |-> Len(rows)]

HealthDbStatus(dbFails) == IF dbFails THEN "error" ELSE "connected"

\* HealthCheckResponse, schemas/chat.py line 148: total_conversations: int
HealthCheckResponseValid(total) == total.k = "int"

\* mutant: the health report includes a probe of the generation provider
HealthCheck_Probes(dbFails) ==
    /\ NoClearRunning
    /\ LET total == HealthTotal(dbFails, chat_history)
           in == [NoInput EXCEPT !.dbFails = dbFails, !.rows = chat_history]
       IN  admin' = IF HealthCheckResponseValid(total)
                    THEN [NoAdmin EXCEPT !.op = "health", !.status = 200, !.input = in,
                                         !.total = total.v, !.chats = 1,
                                         !.detail = HealthDbStatus(dbFails),
                                         !.features = Features]
                    ELSE [NoAdmin EXCEPT !.op = "health", !.status = 500, !.input = in,
                                         !.chats = 1]
    /\ UNCHANGED chat_history
    /\ UnchangedChat

\* health_check, debug.py lines 26-54; a value the response model rejects
\* raises out of the handler
HealthCheck(dbFails) ==
    /\ NoClearRunning
    /\ LET total == HealthTotal(dbFails, chat_history)
           in == [NoInput EXCEPT !.dbFails = dbFails, !.rows = chat_history]
       IN  admin' = IF HealthCheckResponseValid(total)
                    THEN [NoAdmin EXCEPT !.op = "health", !.status = 200, !.input = in,
                                         !.total = total.v,
                                         !.detail = HealthDbStatus(dbFails),
                                         !.features = Features]
                    ELSE [NoAdmin EXCEPT !.op = "health", !.status = 500, !.input = in]
    /\ UNCHANGED chat_history
    /\ UnchangedChat

\* the rows debug_database previews
RecentLimit == 5

\* debug_database, debug.py lines 82-118: an error is answered with 200
DebugDatabase(dbFails) ==
    /\ NoClearRunning
    /\ LET in == [NoInput EXCEPT !.dbFails = dbFails, !.rows = chat_history]
           rows == Page(OrderByTimestampDesc(chat_history), RecentLimit, 0)
       IN  admin' = IF dbFails
                    THEN [NoAdmin EXCEPT !.op = "debug", !.status = 200, !.input = in,
                                         !.detail = "error"]
                    ELSE [NoAdmin EXCEPT !.op = "debug", !.status = 200, !.input = in,
                                         !.detail = "connected",
                                         !.total = Len(chat_history),
                                         !.items = [i \in 1..Len(rows) |->
                                                      [timestamp |-> rows[i].timestamp,
                                                       wikipedia_sources_count |->
                                                           Len(rows[i].wikipedia_sources)]]]
    /\ UNCHANGED chat_history
    /\ UnchangedChat

\* mutant: a reply without exception is healthy whatever its text
ProbeStatus_AnyReply(gen) ==
    IF gen.exc # NoExc THEN "unhealthy" ELSE "healthy"

\* CohereService.health_check, cohere_client.py lines 137-173, on the
\* provider's reply gen to the test message
ProbeStatus(gen) ==
    IF gen.exc # NoExc THEN "unhealthy"
    ELSE IF Truthy(gen.text) THEN "healthy"
    ELSE "unhealthy"

\* debug_cohere, debug.py lines 121-136
DebugCohere(gen) ==
    /\ NoClearRunning
    /\ admin' = [NoAdmin EXCEPT !.op = "probe", !.status = 200, !.chats = 1,
                                !.detail = ProbeStatus(gen),
                                !.input = [NoInput EXCEPT !.gen = gen]]
    /\ UNCHANGED chat_history
    /\ UnchangedChat

\* the chat traffic beside these endpoints: one request body, with and
\* without Wikipedia, and the same body with an empty query
StoreRequests ==
    { r \in Requests : /\ r.max_tokens = MinTokens
                       /\ r.temperature = MinTemperature
                       /\ r.query \in { <<"q">>, <<>> } }

\* a search that fails and a search that returns the hit HitA
StoreSearchReplies ==
    { rep \in SearchReplies : rep.net # "ok" \/ rep.search = << HitA >> }

\* a generation call that fails and one that returns a text
StoreGenReplies ==
    { g \in GenReplies : g.exc # NoExc \/ g.text = Str(<<"g">>) }

\* a recording that succeeds and one whose commit fails
StoreFailPoints == { "none", "commit" }

NextStore ==
    \/ \E req \in StoreRequests : Submit(req)
    \/ Begin
    \/ \E rep \in StoreSearchReplies : Search(rep)
    \/ Resolve
    \/ ReturnResults
    \/ CollectContext
    \/ Prompt
    \/ \E gen \in StoreGenReplies : Generate(gen)
    \/ \E failAt \in StoreFailPoints : Record(failAt, FALSE)
    \/ \E page \in Pages, dbFails \in BOOLEAN : GetChatHistory(page, dbFails)
    \/ \E dbFails \in BOOLEAN : ClearCount(dbFails)
    \/ \E dbFails \in BOOLEAN : ClearDelete(dbFails)
    \/ \E dbFails \in BOOLEAN : HealthCheck(dbFails)
    \/ \E dbFails \in BOOLEAN : DebugDatabase(dbFails)
    \/ \E gen \in GenReplies : DebugCohere(gen)

SpecStore == Init /\ [][NextStore]_vars

----------------------------------------------------------------------------
(* The composition of the context and of the message on articles of every *)
(* length around the truncation limit                                     *)

\* a text of n characters in which neighbours differ
LongText(n) == [i \in 1..n |-> IF i % 2 = 1 THEN "x" ELSE "y"]

ContentLengths ==
    { 0, MaxContentChars - 1, MaxContentChars, MaxContentChars + 1, 2 * MaxContentChars }

ComposeArticles ==
    { [title |-> t, content |-> Str(LongText(n)), url |-> PageUrl] :
        t \in { <<"A">>, <<"B", " ", "C">> }, n \in ContentLengths }

\* what search_wikipedia(query, limit=2) can hand to chat_endpoint
ArticleLists ==
    { <<>> } \cup { <<a>> : a \in ComposeArticles }
             \cup { <<a, b>> : a \in ComposeArticles, b \in ComposeArticles }

\* chat_endpoint at line 60, the search of an accepted request returned
InitCompose ==
    /\ pc = "Composing"
    /\ \E r \in { q \in Requests : ValidRequest(q) /\ q.use_wikipedia } :
          request = Validated(r) /\ submitted = r.query
    /\ wiki_results \in { l \in ArticleLists : Len(l) <= SearchLimit }
    /\ search_results = <<>>
    /\ fetched = <<>>
    /\ results = <<>>
    /\ searchOutcome = [status |-> "returned", exc |-> NoExc, at |-> "none", query |-> request.query]
    /\ wikipedia_sources = <<>>
    /\ wikipedia_context = None
    /\ message = None
    /\ gen_reply = NoGen
    /\ chat_response = None
    /\ recOutcome = NoRecord
    /\ reply = NoReply
    /\ chat_history = <<>>
    /\ clock = 1
    /\ calls = [NoCalls EXCEPT !.search = 1, !.summary = Len(wiki_results)]
    /\ nRequests = 1
    /\ stored_before = <<>>
    /\ admin = NoAdmin

\* format_wikipedia_context called on the results whatever their number,
\* lines 118-135, and its text handed on as the context
FormatContext ==
    /\ pc = "Composing"
    /\ UNCHANGED << admin, submitted >>
    /\ LET c == FormatWikipediaContext(wiki_results)
       IN  /\ calls' = [calls EXCEPT !.compose = @ + 1]
           /\ wikipedia_sources' = CollectSources(wiki_results)
           /\ IF c.exc # NoExc
              THEN /\ pc' = "Failed"
                   /\ reply' = ServerError
                   /\ UNCHANGED wikipedia_context
              ELSE /\ pc' = "Prompting"
                   /\ wikipedia_context' = Str(c.text)
                   /\ UNCHANGED reply
    /\ UNCHANGED << request, search_results, fetched, results, searchOutcome,
                    wiki_results, message, gen_reply, chat_response, recOutcome,
                    chat_history, clock, nRequests, stored_before >>

NextCompose ==
    \/ CollectContext
    \/ FormatContext
    \/ Prompt

SpecCompose == InitCompose /\ [][NextCompose]_vars

----------------------------------------------------------------------------
(* Chat requests whose query lies at the edges of the accepted lengths     *)

\* the queries sent: one character, MaxQueryLen characters, MaxQueryLen
\* characters of which the first and the last are blanks, one character
\* more than MaxQueryLen, one character more than MaxQueryLen whose trimmed
\* form is shorter than MaxQueryLen, blanks only, and no character
EdgeQueries ==
    { <<"q">>,
      LongText(MaxQueryLen),
      <<" ">> \o LongText(MaxQueryLen - 2) \o <<"\n">>,
      LongText(MaxQueryLen + 1),
      LongText(MaxQueryLen - 1) \o <<" ", " ">>,
      <<" ", "\t">>,
      <<>> }

EdgeRequests ==
    { [query |-> q, max_tokens |-> MinTokens, temperature |-> MinTemperature,
       use_wikipedia |-> w] : q \in EdgeQueries, w \in BOOLEAN }

NextQuery ==
    \/ \E req \in EdgeRequests : Submit(req)
    \/ Begin
    \/ \E rep \in StoreSearchReplies : Search(rep)
    \/ Resolve
    \/ ReturnResults
    \/ CollectContext
    \/ Prompt
    \/ \E gen \in StoreGenReplies : Generate(gen)
    \/ \E failAt \in StoreFailPoints : Record(failAt, FALSE)

SpecQuery == Init /\ [][NextQuery]_vars

----------------------------------------------------------------------------
(* Chat requests whose search returns two hits, in either order *)

TwoHitReplies ==
    { [net |-> "ok", status_code |-> HttpOk, body |-> "object",
       has_search |-> TRUE, search |-> h] :
         h \in { <<HitA, HitC>>, <<HitC, HitA>> } }

NextResolve ==
    \/ \E req \in StoreRequests : Submit(req)
    \/ Begin
    \/ \E rep \in TwoHitReplies : Search(rep)
    \/ Resolve
    \/ ReturnResults
    \/ CollectContext
    \/ Prompt
    \/ \E gen \in StoreGenReplies : Generate(gen)
    \/ Record("none", FALSE)

SpecResolve == Init /\ [][NextResolve]_vars

----------------------------------------------------------------------------
(* Claims *)

\* the request was accepted and is in, or through, the pipeline
Accepted == pc \notin {"Idle", "Rejected"}

\* the rows this request added to the table
Appended == SubSeq(chat_history, Len(stored_before) + 1, Len(chat_history))

\* the table is what it was when the request came in
StoreUntouched == chat_history = stored_before

\* the generation call was made and failed: the provider raised, or its
\* reply carries no text
GenerationFailed ==
    gen_reply.exc \in Exceptions \/ (gen_reply.exc = NoExc /\ gen_reply.text.k = "null")

\* the generation call was made and returned the empty text
GenerationEmpty == gen_reply.exc = NoExc /\ gen_reply.text = Str(<<>>)

\* C1: a request whose persistence step fails anywhere in Recording (building
\* the record, add, commit, refresh, or the clean-up after the failed write)
\* still ends in Completed and returns the ChatResult computed before
\* Recording; it never ends in Failed because of storage.
C1_RecordingFailureStillCompletes ==
    recOutcome.failed # "none" =>
        /\ pc = "Completed"
        /\ reply = [kind |-> "result", status |-> 200, body |-> chat_response]

\* C2: when the generation call fails the request ends in Failed and the
\* caller gets an error: no ChatResult is built or returned and no row is
\* added to the table for that request.
C2_GenerationFailureFails ==
    GenerationFailed =>
        /\ pc = "Failed"
        /\ reply.kind = "error"
        /\ reply.status = 500
        /\ reply.body = None
        /\ chat_response = None
        /\ calls.commit = 0
        /\ StoreUntouched

C2_Witness ==
    /\ GenerationFailed
    /\ pc = "Failed"
    /\ request.use_wikipedia
    /\ wikipedia_sources # <<>>
    /\ stored_before # <<>>

\* C3: a generation call that returns the empty text is fatal: the request
\* ends in Failed and no ChatResult with an empty responseText is returned
\* or recorded.
C3_EmptyTextIsFatal ==
    /\ GenerationEmpty => (pc = "Failed" /\ chat_response = None)
    /\ reply.kind = "result" => reply.body.v.response # <<>>
    /\ \A i \in 1..Len(chat_history) : chat_history[i].response # <<>>

\* C4: with use_wikipedia false the search and summary endpoints are never
\* called, the message handed to generation is exactly the query, and the
\* source list is empty in the result, in the reply and in the stored row.
C4_NoContextWhenDisabled ==
    (Accepted /\ ~request.use_wikipedia) =>
        /\ calls.search = 0
        /\ calls.summary = 0
        /\ calls.compose = 0
        /\ message.k = "str" => message.v = request.query
        /\ wikipedia_sources = <<>>
        /\ chat_response.k = "response" => chat_response.v.wikipedia_sources = <<>>
        /\ reply.kind = "result" => reply.body.v.wikipedia_sources = <<>>
        /\ \A i \in 1..Len(Appended) : Appended[i].wikipedia_sources = <<>>

C4_Witness ==
    /\ pc = "Completed"
    /\ ~request.use_wikipedia
    /\ message = Str(request.query)
    /\ calls.generate = 1
    /\ Len(Appended) = 1
    /\ stored_before # <<>>
    /\ stored_before[1].wikipedia_sources # <<>>

\* the search call of this request is over and gave the endpoint no article
SearchCameBackEmpty ==
    /\ request.use_wikipedia
    /\ searchOutcome.status \in {"returned", "degraded"}
    /\ wiki_results = <<>>

\* C5: with use_wikipedia true and an empty search result (no hits, or a
\* degraded failure) the context is never composed, the message is exactly
\* the query, the source list is empty, generation is still called, and its
\* text is the response of the result.
C5_EmptySearchMeansPlainChat ==
    SearchCameBackEmpty =>
        /\ calls.compose = 0
        /\ wikipedia_context = None
        /\ wikipedia_sources = <<>>
        /\ message.k = "str" => message.v = request.query
        /\ pc \in {"Recording", "Completed", "Failed"} => calls.generate = 1
        /\ chat_response.k = "response" =>
              /\ chat_response.v.response = gen_reply.text.v
              /\ chat_response.v.wikipedia_sources = <<>>
        /\ reply.kind = "result" => reply.body.v.response = gen_reply.text.v

C5_Witness ==
    /\ SearchCameBackEmpty
    /\ searchOutcome.status = "degraded"
    /\ pc = "Completed"
    /\ reply.kind = "result"
    /\ reply.body.v.response = <<"g">>
    /\ message = Str(request.query)

\* a max_tokens or a temperature outside the declared ranges
OutOfRange(req) ==
    \/ req.max_tokens < 1
    \/ req.max_tokens > 2000
    \/ req.temperature < 0
    \/ req.temperature > 10

\* C6: a request with max_tokens outside [1,2000] or temperature outside
\* [0.0,1.0] is rejected before the pipeline starts: no call of the search,
\* summary or generation provider is made and no row is added.
C6_OutOfRangeRejected ==
    (pc # "Idle" /\ OutOfRange(request)) =>
        /\ pc = "Rejected"
        /\ reply.kind = "error"
        /\ reply.status = 422
        /\ calls = NoCalls
        /\ message = None
        /\ chat_response = None
        /\ StoreUntouched

C6_Witness ==
    /\ pc = "Rejected"
    /\ request.max_tokens = 2001
    /\ request.temperature = 10
    /\ Strip(request.query) # <<>>
    /\ stored_before # <<>>

WellFormed(hits) == \A i \in 1..Len(hits) : HitError(hits[i]) = NoExc

\* one article per hit, in hit order
OnePerHit(articles, hits) ==
    /\ Len(articles) = Len(hits)
    /\ \A i \in 1..Len(hits) : articles[i].title = hits[i].title.v

\* C8: resolution always succeeds: for a list of hits the resolver gives
\* one article per hit, in hit order, whatever the summary fetch does for
\* each hit; a summary failure never leaves the resolver.
C8_OneArticlePerHit ==
    /\ searchOutcome.at # "summary"
    /\ pc = "Resolving" =>
          /\ Len(results) = Len(fetched)
          /\ OnePerHit(results, SubSeq(search_results, 1, Len(fetched)))
    /\ (pc = "Composing" /\ search_results # <<>> /\ WellFormed(search_results)) =>
          /\ searchOutcome.status = "returned"
          /\ OnePerHit(wiki_results, search_results)

C8_Witness ==
    /\ pc = "Composing"
    /\ Len(search_results) = 2
    /\ Len(wiki_results) = 2
    /\ fetched[1].net = "Timeout"
    /\ fetched[2].body = "malformed"

\* the summary fetch of a hit failed: no reply, a status other than 2xx, or
\* a reply without the extract field
SummaryFailed(sum) ==
    \/ sum.net # "ok"
    \/ sum.status_code < 200
    \/ sum.status_code > 299
    \/ (sum.body = "object" /\ sum.extract.k = "missing")

\* the fallback article of a hit: the cleaned snippet, and the base URL
\* followed by the title with "_" for " "
IsFallbackOf(article, hit) ==
    /\ article.title = hit.title.v
    /\ article.content = Str(CleanSnippet(GetOrEmpty(hit.snippet).v))
    /\ article.url = WikiBase \o TitlePath(hit.title.v)

\* C9: whenever the summary fetch of a hit fails (status other than 2xx,
\* timeout, or a reply with no extract field) the article is the fallback
\* one: the cleaned snippet as content and the URL derived from the title.
C9_FailedFetchFallsBack ==
    \A i \in 1..Len(results) :
        (i <= Len(fetched) /\ SummaryFailed(fetched[i])) =>
            IsFallbackOf(results[i], search_results[i])

\* C10: every article the resolver produces has a non-empty URL; when the
\* summary reply carries no URL it is the one derived from the title.
C10_UrlNeverEmpty ==
    /\ \A i \in 1..Len(results) :
          /\ results[i].url # <<>>
          /\ (i <= Len(fetched) /\ fetched[i].page.k # "str") =>
                results[i].url = WikiBase \o TitlePath(results[i].title)
    /\ \A i \in 1..Len(wiki_results) : wiki_results[i].url # <<>>

\* the context block of this request was composed from wiki_results
ContextComposed == calls.compose = 1 /\ wikipedia_context.k = "str"

\* C11: when a context was composed, wikipedia_sources has exactly one entry
\* per article of the context block, in the same order: the URL of that
\* article (two articles give two sources).
C11_OneSourcePerArticle ==
    ContextComposed =>
        /\ Len(wikipedia_sources) = Len(wiki_results)
        /\ \A i \in 1..Len(wiki_results) :
              i <= Len(wikipedia_sources) /\ wikipedia_sources[i] = wiki_results[i].url

\* the part of a one-article context that follows the title line
BodyOfOnly ==
    SubSeq(wikipedia_context.v, Len(wiki_results[1].title) + 3, Len(wikipedia_context.v))

\* C12: in the context block an article's content longer than 800
\* characters appears as its first 800 characters followed by "...", and a
\* content of at most 800 characters (exactly 800 and the empty one too)
\* appears unchanged, with no ellipsis.
C12_TruncationAt800 ==
    (ContextComposed /\ Len(wiki_results) = 1) =>
        LET content == wiki_results[1].content.v
        IN  IF Len(content) > 800
            THEN /\ Len(BodyOfOnly) = 801
                 /\ \A i \in 1..800 : BodyOfOnly[i] = content[i]
                 /\ BodyOfOnly[801] = "..."
            ELSE BodyOfOnly = content

\* a context composed from one article of 801 characters
C12_Witness ==
    /\ ContextComposed
    /\ Len(wiki_results) = 1
    /\ Len(wiki_results[1].content.v) = 801
    /\ wikipedia_context.v[Len(wikipedia_context.v)] = "..."

\* the rendering the context block owes to article a: the header with the
\* title, a line break, and the content cut at 800 characters
Rendering(a) ==
    <<"Wikipedia Article: ">> \o a.title \o <<"\n">>
        \o (IF Len(a.content.v) > 800
            THEN SubSeq(a.content.v, 1, 800) \o <<"...">>
            ELSE a.content.v)

\* where the rendering of article i starts in the context block
RECURSIVE StartOf(_, _)
StartOf(articles, i) ==
    IF i = 1 THEN 1
    ELSE StartOf(articles, i - 1) + Len(Rendering(articles[i - 1])) + 1

\* C13: format_wikipedia_context gives the empty text for no article;
\* otherwise the text holds exactly one rendering per article, in the order
\* of the input, any two neighbours separated by a blank line, and nothing
\* else.
C13_OneRenderingPerArticle ==
    (calls.compose = 1 /\ wikipedia_context.k = "str") =>
        LET text == wikipedia_context.v
            n    == Len(wiki_results)
        IN  IF n = 0 THEN text = <<>>
            ELSE /\ Len(text) = StartOf(wiki_results, n) + Len(Rendering(wiki_results[n])) - 1
                 /\ \A i \in 1..n :
                      LET from == StartOf(wiki_results, i)
                          to   == from + Len(Rendering(wiki_results[i])) - 1
                      IN  /\ to <= Len(text)
                          /\ SubSeq(text, from, to) = Rendering(wiki_results[i])
                          /\ i < n => (to < Len(text) /\ text[to + 1] = "\n\n")

\* a context composed from two different articles
C13_Witness ==
    /\ ContextComposed
    /\ Len(wiki_results) = 2
    /\ wiki_results[1].title # wiki_results[2].title
    /\ Len(wiki_results[1].content.v) > Len(wiki_results[2].content.v)

\* C14: _prepare_message gives the raw query when the context is None or
\* empty; otherwise it gives the template: the whole context under the
\* context label, then the unmodified query under the question label.
C14_MessageFromTemplate ==
    (pc = "Generating" /\ message.k = "str") =>
        IF wikipedia_context.k = "str" /\ Len(wikipedia_context.v) > 0
        THEN message.v = Preamble \o wikipedia_context.v \o QuestionLabel
                             \o request.query \o Epilogue
        ELSE message.v = request.query

\* a message built around a context of two articles
C14_Witness ==
    /\ pc = "Generating"
    /\ Len(wiki_results) = 2
    /\ Len(wikipedia_context.v) > 0
    /\ message.v # request.query
    /\ Len(message.v) = Len(wikipedia_context.v) + Len(request.query) + 3

\* C15: the search, resolve and compose steps never move a request to
\* Failed, whatever the search and summary endpoints answer (replies with
\* missing or null fields included); only the generation step does.
C15_ContextStepsNeverFail ==
    [][(pc \in {"Searching", "Resolving", "Composing"}) => (pc' # "Failed")]_vars

\* C16: every accepted chat request eventually reaches Completed or Failed,
\* also when the search, summary or generation endpoint never answers.
C16_AcceptedRequestTerminates ==
    (pc = "Received") ~> (pc \in {"Completed", "Failed"})

\* the search and resolve steps of the request are over, and so is the
\* compose step when there is something to compose
ContextStepsOver ==
    request.use_wikipedia =>
        /\ calls.search = 1
        /\ searchOutcome.status \in {"returned", "degraded"}
        /\ wiki_results # <<>> => (calls.compose = 1 /\ wikipedia_context.k = "str")

\* the generation call returned a text and the result was built from it
GenerationReturned ==
    /\ calls.generate = 1
    /\ gen_reply.exc = NoExc
    /\ gen_reply.text.k = "str"
    /\ chat_response.k = "response"

\* C17: the steps of a request run in the order search, resolve, compose,
\* prompt, generate, record.  At each position the calls of the later
\* steps have not been made; a summary call is made only after the search
\* call, the context is composed only from a search that returned, the
\* message is built and the generation call dispatched only once the
\* search, resolve and compose steps are over, and a row is added only
\* after the generation call returned a text.
C17_StepsInOrder ==
    /\ pc \in {"Received", "Searching"} => calls = NoCalls
    /\ pc \in {"Resolving", "Composing"} =>
          (calls.search = 1 /\ calls.compose = 0 /\ message = None)
    /\ pc \in {"Resolving", "Composing", "Prompting", "Generating"} =>
          (calls.generate = 0 /\ calls.add = 0 /\ Appended = <<>>)
    /\ pc = "Prompting" => (message = None /\ ContextStepsOver)
    /\ pc = "Recording" => (GenerationReturned /\ calls.add = 0 /\ Appended = <<>>)
    /\ calls.summary >= 1 => calls.search = 1
    /\ calls.compose >= 1 => searchOutcome.status = "returned"
    /\ message # None => ContextStepsOver
    /\ calls.generate >= 1 => (message.k = "str" /\ ContextStepsOver)
    /\ (calls.add >= 1 \/ Appended # <<>>) => GenerationReturned

\* a request with context went through every step and its row is stored
C17_Witness ==
    /\ pc = "Completed"
    /\ calls = [search |-> 1, summary |-> 2, compose |-> 1, generate |-> 1,
                add |-> 1, commit |-> 1]
    /\ Len(Appended) = 1

\* C18: nothing is retried.  For one chat request the search endpoint is
\* called at most once, the summary endpoint at most once per hit (one
\* call for each hit gone through), the generation endpoint at most once,
\* and a row is added and committed at most once.
C18_NoRetry ==
    /\ calls.search <= 1
    /\ calls.summary <= SearchLimit
    /\ pc = "Resolving" =>
          (calls.summary = Len(fetched) /\ Len(fetched) <= Len(search_results))
    /\ calls.compose <= 1
    /\ calls.generate <= 1
    /\ calls.add <= 1
    /\ calls.commit <= 1
    /\ Len(Appended) <= 1

\* a request whose search failed and whose commit failed ended all the
\* same after one call of each
C18_Witness ==
    /\ pc = "Completed"
    /\ searchOutcome.status = "degraded"
    /\ recOutcome.failed = "commit"
    /\ calls.search = 1
    /\ calls.generate = 1
    /\ calls.add = 1
    /\ calls.commit = 0

\* the stored value is the native value n of the given kind
StoredNative(stored, kind, n) == stored.k = kind /\ stored.v = n

\* C19: when a request completes and its recording succeeded, exactly one
\* row was added; its query, response, sources and timestamp are those of
\* the result returned, and its max_tokens, temperature and use_wikipedia
\* are those of the request (a number and a boolean, as the request
\* carries them).
C19_RecordMatchesResult ==
    (pc = "Completed" /\ recOutcome.failed = "none") =>
        /\ Len(Appended) = 1
        /\ LET row    == Appended[1]
               result == reply.body.v
           IN  /\ row.query = result.query
               /\ row.response = result.response
               /\ row.wikipedia_sources = result.wikipedia_sources
               /\ row.timestamp = result.timestamp
               /\ row.max_tokens = request.max_tokens
               /\ StoredNative(row.temperature, "float", request.temperature)
               /\ StoredNative(row.use_wikipedia, "bool", request.use_wikipedia)

\* every row of the table is still there, at its place and with all its
\* fields, after the step
RowsKept ==
    \A i \in 1..Len(chat_history) :
        i <= Len(chat_history') /\ chat_history'[i] = chat_history[i]

\* the step is the bulk clear: it empties the table, answers with the
\* number of rows deleted and is no step of a chat request
BulkClearStep ==
    /\ chat_history' = <<>>
    /\ admin.op = "clearing"
    /\ admin'.op = "clear"
    /\ admin'.status = 200
    /\ pc' = pc
    /\ calls' = calls

\* C20: the table is append-only under chat traffic: over any sequence of
\* chat, history, health and debug operations a stored row keeps all its
\* fields and its place, and rows disappear only through the bulk clear.
C20_AppendOnly == [][RowsKept \/ BulkClearStep]_vars

\* two rows are stored, the second one by a request that ran after the
\* first, and GET /history has just listed both
C20_Witness ==
    /\ Len(chat_history) = 2
    /\ chat_history[1].timestamp < chat_history[2].timestamp
    /\ admin.op = "history"
    /\ admin.status = 200
    /\ admin.total = 2
    /\ Len(admin.items) = 2
    /\ admin.items[1].timestamp = chat_history[2].timestamp

\* GET /history answered with a page
HistoryAnswered == admin.op = "history" /\ admin.status = 200

\* how many of rows are more recent than the timestamp t
NewerThan(rows, t) == Cardinality({ k \in 1..Len(rows) : rows[k].timestamp > t })

C22_ClearReportsDeleted ==
    (admin.op = "clear" /\ admin.status = 200) =>
        admin.total = Len(admin.input.rows)

\* C23: when the storage query of GET /health fails, the endpoint still
\* answers with a health report: its database status shows the error and
\* its features are the static ones.
C23_HealthSurvivesStorageFailure ==
    (admin.op = "health" /\ admin.input.dbFails) =>
        /\ admin.status = 200
        /\ admin.detail = "error"
        /\ admin.features = Features

\* C24: GET /health makes no call of the generation provider, neither a
\* generation nor a probe, whether its storage query succeeds or fails.
C24_HealthNeverGenerates ==
    admin.op = "health" => admin.chats = 0

\* a health request whose storage query failed, answered while a chat
\* request waits for its generation call
C24_Witness ==
    /\ admin.op = "health"
    /\ admin.input.dbFails
    /\ pc = "Generating"
    /\ calls.generate = 0

\* C25: a validation failure and a generation failure reach the client as
\* two different kinds of error, and the error kind of a generation
\* failure is given for nothing else: no failure of the lookup or of the
\* persistence is reported with it.
C25_FailureCategories ==
    /\ pc = "Rejected" => (reply = ValidationError /\ reply # ServerError)
    /\ GenerationFailed => reply = ServerError
    /\ reply = ServerError => GenerationFailed

\* whether q is raw without the blanks at its two ends
IsTrimOf(q, raw) ==
    /\ Len(q) <= Len(raw)
    /\ q # <<>> => (~IsSpace(q[1]) /\ ~IsSpace(q[Len(q)]))
    /\ \E a \in 0..(Len(raw) - Len(q)) :
          /\ \A k \in 1..a : IsSpace(raw[k])
          /\ \A k \in (a + Len(q) + 1)..Len(raw) : IsSpace(raw[k])
          /\ SubSeq(raw, a + 1, a + Len(q)) = q

\* whether the message holds the query: it is the query, or the template
\* whose part between the question label and the epilogue is the query
MessageCarries(msg, q) ==
    \/ msg = q
    \/ /\ Len(msg) >= Len(q) + 3
       /\ msg[Len(msg)] = Epilogue[1]
       /\ SubSeq(msg, Len(msg) - Len(q), Len(msg) - 1) = q
       /\ msg[Len(msg) - Len(q) - 1] = QuestionLabel[1]

UnacceptableQuery(raw) ==
    \/ Len(raw) > MaxQueryLen
    \/ \A k \in 1..Len(raw) : IsSpace(raw[k])

\* C26: the query of an accepted request is the submitted query without the
\* blanks at its ends, is not empty and has at most MaxQueryLen characters;
\* the search, the message, the response and the stored row carry that
\* query; a request whose query is empty, blank or longer than MaxQueryLen
\* characters is rejected with no external call and no new row
C26_QueryNormalised ==
    /\ Accepted =>
          /\ IsTrimOf(request.query, submitted)
          /\ request.query # <<>>
          /\ Len(request.query) <= MaxQueryLen
          /\ calls.search > 0 => searchOutcome.query = request.query
          /\ message.k = "str" => MessageCarries(message.v, request.query)
          /\ chat_response.k = "response" =>
                chat_response.v.query = request.query
          /\ \A k \in (Len(stored_before) + 1)..Len(chat_history) :
                chat_history[k].query = request.query
    /\ (nRequests > 0 /\ UnacceptableQuery(submitted)) =>
          /\ pc = "Rejected"
          /\ calls = NoCalls
          /\ chat_history = stored_before

\* a query of MaxQueryLen characters with a blank at each end went through
\* the search and the generation and is stored in its trimmed form
C26_Witness ==
    /\ pc = "Completed"
    /\ Len(submitted) = MaxQueryLen
    /\ IsSpace(submitted[1])
    /\ calls.search > 0
    /\ calls.generate > 0
    /\ Len(chat_history) > Len(stored_before)
    /\ Len(chat_history[Len(chat_history)].query) = MaxQueryLen - 2

\* C27: when the recording of a request fails, the stored records are those
\* of before the attempt, and the write was attempted once at most
C27_FailedRecordingLeavesStore ==
    recOutcome.failed # "none" =>
        /\ chat_history = stored_before
        /\ calls.add <= 1
        /\ calls.commit <= 1

ProbeAnswered == admin.op = "probe"

\* a step of the probe: it leaves a new probe report
ProbeStep == admin' # admin /\ admin'.op = "probe"

\* a step of a chat request
ChatStep == pc' # pc \/ calls' # calls \/ nRequests' # nRequests

\* C28: the probe always answers; its report is healthy exactly when the
\* provider's reply came without exception and with a non-empty text; a
\* step of the probe changes nothing of a chat request or of the store,
\* and a step of a chat request changes nothing of the probe's report
C28_ProbeStandsApart ==
    /\ [](ProbeAnswered =>
            /\ admin.status = 200
            /\ admin.detail \in { "healthy", "unhealthy" }
            /\ admin.detail = "healthy" <=>
                  /\ admin.input.gen.exc = NoExc
                  /\ admin.input.gen.text.k = "str"
                  /\ admin.input.gen.text.v # <<>>)
    /\ [][(ProbeStep => (UnchangedChat /\ chat_history' = chat_history))
          /\ (ChatStep => admin' = admin)]_vars

\* the probe reported unhealthy on an exception of the provider while a
\* chat request was about to generate, and the request had made no call
C28_Witness ==
    /\ ProbeAnswered
    /\ admin.input.gen.exc # NoExc
    /\ admin.detail = "unhealthy"
    /\ pc = "Generating"
    /\ calls.generate = 0

\* whether msg is the context template around the composed context
IsContextTemplate(msg) ==
    /\ wikipedia_context.k = "str"
    /\ msg = Preamble \o wikipedia_context.v \o QuestionLabel \o request.query
                \o Epilogue
    /\ msg # request.query

\* C29: once the search has returned at least one article and the compose
\* step is over, the context is a non-empty text and the message for the
\* generation is the context template; a message that goes with a non-empty
\* list of source URLs is the context template
C29_ArticlesGiveTemplate ==
    /\ (wiki_results # <<>> /\ pc # "Composing") => Truthy(wikipedia_context)
    /\ (wiki_results # <<>> /\ message.k = "str") => IsContextTemplate(message.v)
    /\ (wikipedia_sources # <<>> /\ message.k = "str") => IsContextTemplate(message.v)

\* the summary fetch of a hit failed: no reply, a status other than 200, or
\* a reply that cannot be read
FetchFailed(sum) ==
    \/ sum.net # "ok"
    \/ sum.status_code # HttpOk
    \/ sum.body # "object"
    \/ sum.page.k = "null"

\* the article a hit gets from the reply sum of its own fetch alone
ArticleOfReply(hit, sum) ==
    [title |-> hit.title.v,
     content |-> IF sum.extract.k = "missing" THEN Str(<<>>) ELSE sum.extract,
     url |-> IF sum.page.k = "str" THEN sum.page.v ELSE <<>>]

\* C30: the article of each hit is decided by the fetch of that hit alone:
\* the fallback when its fetch failed, the article of its reply when not,
\* whatever the fetches of the other hits did; the articles follow the
\* order of the hits
C30_FailureStaysWithItsHit ==
    /\ Len(results) <= Len(fetched)
    /\ pc = "Resolving" => Len(results) = Len(fetched)
    /\ \A i \in 1..Len(results) :
          /\ results[i].title = search_results[i].title.v
          /\ FetchFailed(fetched[i]) =>
                IsFallbackOf(results[i], search_results[i])
          /\ ~FetchFailed(fetched[i]) =>
                results[i] = ArticleOfReply(search_results[i], fetched[i])

\* of two hits the fetch of the second failed and that of the first did
\* not: the first has the article of its reply, the second the fallback
C30_Witness ==
    /\ Len(results) = 2
    /\ ~FetchFailed(fetched[1])
    /\ FetchFailed(fetched[2])
    /\ results[1] = ArticleOfReply(search_results[1], fetched[1])
    /\ ~IsFallbackOf(results[1], search_results[1])
    /\ IsFallbackOf(results[2], search_results[2])

====
